---- MODULE Spec2Model ----
(***************************************************************************)
(* A model of TrainingCenter.py: the training_center table, the three      *)
(* request handlers (home, create_training_center, get_training_centers),  *)
(* the validators and the serializer TrainingCenter.to_dict.               *)
(*                                                                         *)
(* A JSON string is a sequence of one-character strings.  A JSON value of  *)
(* a payload key is a record [k, v]: k = "absent" (the key is not in the   *)
(* object), "null" (JSON null, Python None), "str", "int", "list" or "obj"; *)
(* v holds the characters of a string, the decimal digits of an integer    *)
(* (after "-" when negative, no leading zero), the items of a list.        *)
(* The keys of the nested address object are kept beside the top-level     *)
(* keys of the payload (detailed_address, city, state, pincode); they are  *)
(* read only when address.k = "obj".  A character outside ASCII is written *)
(* by its code point, "U+0663".  A payload value is absent, null or        *)
(* of the JSON type the handler reads it as (a string, an integer, a list  *)
(* of strings, an object); values of other types are not modelled.         *)
(***************************************************************************)
EXTENDS Integers, Sequences, FiniteSets, TLC

VARIABLES store, req

vars == <<store, req>>

\* ------------------------------------------------------------------ bounds
\* created_on is drawn from 1 .. 1 + MaxClock
MaxClock == 1
\* longest courses_offered list a payload carries
MaxCourses == 2

\* ------------------------------------------------------- program constants
NameMax == 40
CodeLen == 12
PhoneLen == 10

\* ------------------------------------------------------------- JSON values
Absent == [k |-> "absent", v |-> <<>>]
Null == [k |-> "null", v |-> <<>>]
Str(s) == [k |-> "str", v |-> s]
Num(n) == [k |-> "int", v |-> n]
List(l) == [k |-> "list", v |-> l]
Obj == [k |-> "obj", v |-> <<>>]

Rep(c, n) == [i \in 1..n |-> c]

\* \d of a str pattern (no re.ASCII): every Unicode decimal digit (category
\* Nd, Unicode 14.0.0), the non-ASCII ones written by their code point
Digits ==
    {"0", "1", "2", "3", "4", "5", "6", "7", "8", "9", "U+0660", "U+0661",
     "U+0662", "U+0663", "U+0664", "U+0665", "U+0666", "U+0667", "U+0668",
     "U+0669", "U+06F0", "U+06F1", "U+06F2", "U+06F3", "U+06F4", "U+06F5",
     "U+06F6", "U+06F7", "U+06F8", "U+06F9", "U+07C0", "U+07C1", "U+07C2",
     "U+07C3", "U+07C4", "U+07C5", "U+07C6", "U+07C7", "U+07C8", "U+07C9",
     "U+0966", "U+0967", "U+0968", "U+0969", "U+096A", "U+096B", "U+096C",
     "U+096D", "U+096E", "U+096F", "U+09E6", "U+09E7", "U+09E8", "U+09E9",
     "U+09EA", "U+09EB", "U+09EC", "U+09ED", "U+09EE", "U+09EF", "U+0A66",
     "U+0A67", "U+0A68", "U+0A69", "U+0A6A", "U+0A6B", "U+0A6C", "U+0A6D",
     "U+0A6E", "U+0A6F", "U+0AE6", "U+0AE7", "U+0AE8", "U+0AE9", "U+0AEA",
     "U+0AEB", "U+0AEC", "U+0AED", "U+0AEE", "U+0AEF", "U+0B66", "U+0B67",
     "U+0B68", "U+0B69", "U+0B6A", "U+0B6B", "U+0B6C", "U+0B6D", "U+0B6E",
     "U+0B6F", "U+0BE6", "U+0BE7", "U+0BE8", "U+0BE9", "U+0BEA", "U+0BEB",
     "U+0BEC", "U+0BED", "U+0BEE", "U+0BEF", "U+0C66", "U+0C67", "U+0C68",
     "U+0C69", "U+0C6A", "U+0C6B", "U+0C6C", "U+0C6D", "U+0C6E", "U+0C6F",
     "U+0CE6", "U+0CE7", "U+0CE8", "U+0CE9", "U+0CEA", "U+0CEB", "U+0CEC",
     "U+0CED", "U+0CEE", "U+0CEF", "U+0D66", "U+0D67", "U+0D68", "U+0D69",
     "U+0D6A", "U+0D6B", "U+0D6C", "U+0D6D", "U+0D6E", "U+0D6F", "U+0DE6",
     "U+0DE7", "U+0DE8", "U+0DE9", "U+0DEA", "U+0DEB", "U+0DEC", "U+0DED",
     "U+0DEE", "U+0DEF", "U+0E50", "U+0E51", "U+0E52", "U+0E53", "U+0E54",
     "U+0E55", "U+0E56", "U+0E57", "U+0E58", "U+0E59", "U+0ED0", "U+0ED1",
     "U+0ED2", "U+0ED3", "U+0ED4", "U+0ED5", "U+0ED6", "U+0ED7", "U+0ED8",
     "U+0ED9", "U+0F20", "U+0F21", "U+0F22", "U+0F23", "U+0F24", "U+0F25",
     "U+0F26", "U+0F27", "U+0F28", "U+0F29", "U+1040", "U+1041", "U+1042",
     "U+1043", "U+1044", "U+1045", "U+1046", "U+1047", "U+1048", "U+1049",
     "U+1090", "U+1091", "U+1092", "U+1093", "U+1094", "U+1095", "U+1096",
     "U+1097", "U+1098", "U+1099", "U+17E0", "U+17E1", "U+17E2", "U+17E3",
     "U+17E4", "U+17E5", "U+17E6", "U+17E7", "U+17E8", "U+17E9", "U+1810",
     "U+1811", "U+1812", "U+1813", "U+1814", "U+1815", "U+1816", "U+1817",
     "U+1818", "U+1819", "U+1946", "U+1947", "U+1948", "U+1949", "U+194A",
     "U+194B", "U+194C", "U+194D", "U+194E", "U+194F", "U+19D0", "U+19D1",
     "U+19D2", "U+19D3", "U+19D4", "U+19D5", "U+19D6", "U+19D7", "U+19D8",
     "U+19D9", "U+1A80", "U+1A81", "U+1A82", "U+1A83", "U+1A84", "U+1A85",
     "U+1A86", "U+1A87", "U+1A88", "U+1A89", "U+1A90", "U+1A91", "U+1A92",
     "U+1A93", "U+1A94", "U+1A95", "U+1A96", "U+1A97", "U+1A98", "U+1A99",
     "U+1B50", "U+1B51", "U+1B52", "U+1B53", "U+1B54", "U+1B55", "U+1B56",
     "U+1B57", "U+1B58", "U+1B59", "U+1BB0", "U+1BB1", "U+1BB2", "U+1BB3",
     "U+1BB4", "U+1BB5", "U+1BB6", "U+1BB7", "U+1BB8", "U+1BB9", "U+1C40",
     "U+1C41", "U+1C42", "U+1C43", "U+1C44", "U+1C45", "U+1C46", "U+1C47",
     "U+1C48", "U+1C49", "U+1C50", "U+1C51", "U+1C52", "U+1C53", "U+1C54",
     "U+1C55", "U+1C56", "U+1C57", "U+1C58", "U+1C59", "U+A620", "U+A621",
     "U+A622", "U+A623", "U+A624", "U+A625", "U+A626", "U+A627", "U+A628",
     "U+A629", "U+A8D0", "U+A8D1", "U+A8D2", "U+A8D3", "U+A8D4", "U+A8D5",
     "U+A8D6", "U+A8D7", "U+A8D8", "U+A8D9", "U+A900", "U+A901", "U+A902",
     "U+A903", "U+A904", "U+A905", "U+A906", "U+A907", "U+A908", "U+A909",
     "U+A9D0", "U+A9D1", "U+A9D2", "U+A9D3", "U+A9D4", "U+A9D5", "U+A9D6",
     "U+A9D7", "U+A9D8", "U+A9D9", "U+A9F0", "U+A9F1", "U+A9F2", "U+A9F3",
     "U+A9F4", "U+A9F5", "U+A9F6", "U+A9F7", "U+A9F8", "U+A9F9", "U+AA50",
     "U+AA51", "U+AA52", "U+AA53", "U+AA54", "U+AA55", "U+AA56", "U+AA57",
     "U+AA58", "U+AA59", "U+ABF0", "U+ABF1", "U+ABF2", "U+ABF3", "U+ABF4",
     "U+ABF5", "U+ABF6", "U+ABF7", "U+ABF8", "U+ABF9", "U+FF10", "U+FF11",
     "U+FF12", "U+FF13", "U+FF14", "U+FF15", "U+FF16", "U+FF17", "U+FF18",
     "U+FF19", "U+104A0", "U+104A1", "U+104A2", "U+104A3", "U+104A4",
     "U+104A5", "U+104A6", "U+104A7", "U+104A8", "U+104A9", "U+10D30",
     "U+10D31", "U+10D32", "U+10D33", "U+10D34", "U+10D35", "U+10D36",
     "U+10D37", "U+10D38", "U+10D39", "U+11066", "U+11067", "U+11068",
     "U+11069", "U+1106A", "U+1106B", "U+1106C", "U+1106D", "U+1106E",
     "U+1106F", "U+110F0", "U+110F1", "U+110F2", "U+110F3", "U+110F4",
     "U+110F5", "U+110F6", "U+110F7", "U+110F8", "U+110F9", "U+11136",
     "U+11137", "U+11138", "U+11139", "U+1113A", "U+1113B", "U+1113C",
     "U+1113D", "U+1113E", "U+1113F", "U+111D0", "U+111D1", "U+111D2",
     "U+111D3", "U+111D4", "U+111D5", "U+111D6", "U+111D7", "U+111D8",
     "U+111D9", "U+112F0", "U+112F1", "U+112F2", "U+112F3", "U+112F4",
     "U+112F5", "U+112F6", "U+112F7", "U+112F8", "U+112F9", "U+11450",
     "U+11451", "U+11452", "U+11453", "U+11454", "U+11455", "U+11456",
     "U+11457", "U+11458", "U+11459", "U+114D0", "U+114D1", "U+114D2",
     "U+114D3", "U+114D4", "U+114D5", "U+114D6", "U+114D7", "U+114D8",
     "U+114D9", "U+11650", "U+11651", "U+11652", "U+11653", "U+11654",
     "U+11655", "U+11656", "U+11657", "U+11658", "U+11659", "U+116C0",
     "U+116C1", "U+116C2", "U+116C3", "U+116C4", "U+116C5", "U+116C6",
     "U+116C7", "U+116C8", "U+116C9", "U+11730", "U+11731", "U+11732",
     "U+11733", "U+11734", "U+11735", "U+11736", "U+11737", "U+11738",
     "U+11739", "U+118E0", "U+118E1", "U+118E2", "U+118E3", "U+118E4",
     "U+118E5", "U+118E6", "U+118E7", "U+118E8", "U+118E9", "U+11950",
     "U+11951", "U+11952", "U+11953", "U+11954", "U+11955", "U+11956",
     "U+11957", "U+11958", "U+11959", "U+11C50", "U+11C51", "U+11C52",
     "U+11C53", "U+11C54", "U+11C55", "U+11C56", "U+11C57", "U+11C58",
     "U+11C59", "U+11D50", "U+11D51", "U+11D52", "U+11D53", "U+11D54",
     "U+11D55", "U+11D56", "U+11D57", "U+11D58", "U+11D59", "U+11DA0",
     "U+11DA1", "U+11DA2", "U+11DA3", "U+11DA4", "U+11DA5", "U+11DA6",
     "U+11DA7", "U+11DA8", "U+11DA9", "U+16A60", "U+16A61", "U+16A62",
     "U+16A63", "U+16A64", "U+16A65", "U+16A66", "U+16A67", "U+16A68",
     "U+16A69", "U+16AC0", "U+16AC1", "U+16AC2", "U+16AC3", "U+16AC4",
     "U+16AC5", "U+16AC6", "U+16AC7", "U+16AC8", "U+16AC9", "U+16B50",
     "U+16B51", "U+16B52", "U+16B53", "U+16B54", "U+16B55", "U+16B56",
     "U+16B57", "U+16B58", "U+16B59", "U+1D7CE", "U+1D7CF", "U+1D7D0",
     "U+1D7D1", "U+1D7D2", "U+1D7D3", "U+1D7D4", "U+1D7D5", "U+1D7D6",
     "U+1D7D7", "U+1D7D8", "U+1D7D9", "U+1D7DA", "U+1D7DB", "U+1D7DC",
     "U+1D7DD", "U+1D7DE", "U+1D7DF", "U+1D7E0", "U+1D7E1", "U+1D7E2",
     "U+1D7E3", "U+1D7E4", "U+1D7E5", "U+1D7E6", "U+1D7E7", "U+1D7E8",
     "U+1D7E9", "U+1D7EA", "U+1D7EB", "U+1D7EC", "U+1D7ED", "U+1D7EE",
     "U+1D7EF", "U+1D7F0", "U+1D7F1", "U+1D7F2", "U+1D7F3", "U+1D7F4",
     "U+1D7F5", "U+1D7F6", "U+1D7F7", "U+1D7F8", "U+1D7F9", "U+1D7FA",
     "U+1D7FB", "U+1D7FC", "U+1D7FD", "U+1D7FE", "U+1D7FF", "U+1E140",
     "U+1E141", "U+1E142", "U+1E143", "U+1E144", "U+1E145", "U+1E146",
     "U+1E147", "U+1E148", "U+1E149", "U+1E2F0", "U+1E2F1", "U+1E2F2",
     "U+1E2F3", "U+1E2F4", "U+1E2F5", "U+1E2F6", "U+1E2F7", "U+1E2F8",
     "U+1E2F9", "U+1E950", "U+1E951", "U+1E952", "U+1E953", "U+1E954",
     "U+1E955", "U+1E956", "U+1E957", "U+1E958", "U+1E959", "U+1FBF0",
     "U+1FBF1", "U+1FBF2", "U+1FBF3", "U+1FBF4", "U+1FBF5", "U+1FBF6",
     "U+1FBF7", "U+1FBF8", "U+1FBF9"}

\* ------------------------------------------------------------- validators
\* re.match(r"[^@]+@[^@]+\.[^@]+", email): a match of a prefix of email
validate_email(email) ==
    \E i \in 1..Len(email), j \in 1..Len(email) :
        /\ i >= 2
        /\ email[i] = "@"
        /\ \A p \in 1..(i - 1) : email[p] # "@"
        /\ j >= i + 2
        /\ email[j] = "."
        /\ \A p \in (i + 1)..(j - 1) : email[p] # "@"
        /\ j + 1 <= Len(email)
        /\ email[j + 1] # "@"

\* re.match(r"^\d{10}$", phone): ten Unicode decimal digits; "$" also matches
\* just before a final newline
validate_phone(phone) ==
    /\ Len(phone) >= PhoneLen
    /\ \A p \in 1..PhoneLen : phone[p] \in Digits
    /\ \/ Len(phone) = PhoneLen
       \/ /\ Len(phone) = PhoneLen + 1
          /\ phone[PhoneLen + 1] = "\n"

\* ------------------------------------------------------------- serializer
FirstComma(s) ==
    IF \E i \in 1..Len(s) : s[i] = ","
    THEN CHOOSE i \in 1..Len(s) : s[i] = "," /\ \A p \in 1..(i - 1) : s[p] # ","
    ELSE 0

RECURSIVE SplitNoEmpty(_)
SplitNoEmpty(s) ==
    IF FirstComma(s) = 0
    THEN IF s = <<>> THEN <<>> ELSE <<s>>
    ELSE (IF FirstComma(s) = 1 THEN <<>> ELSE <<SubSeq(s, 1, FirstComma(s) - 1)>>)
         \o SplitNoEmpty(SubSeq(s, FirstComma(s) + 1, Len(s)))

\* str.split(','): the pieces between the commas, empty pieces kept
RECURSIVE Split(_)
Split(s) ==
    IF FirstComma(s) = 0
    THEN <<s>>
    ELSE <<SubSeq(s, 1, FirstComma(s) - 1)>>
         \o Split(SubSeq(s, FirstComma(s) + 1, Len(s)))

\* ','.join(l)
RECURSIVE Join(_)
Join(l) ==
    IF l = <<>> THEN <<>>
    ELSE IF Len(l) = 1 THEN Head(l)
    ELSE Head(l) \o <<",">> \o Join(Tail(l))

\* TrainingCenter.to_dict: id is not part of the wire form
to_dict(self) ==
    [center_name |-> self.center_name,
     center_code |-> self.center_code,
     address |-> [detailed_address |-> self.detailed_address,
                  city |-> self.city,
                  state |-> self.state,
                  pincode |-> self.pincode],
     student_capacity |-> self.student_capacity,
     courses_offered |-> IF self.courses_offered.k = "str" /\ self.courses_offered.v # <<>>
                         THEN Split(self.courses_offered.v)
                         ELSE <<>>,
     created_on |-> self.created_on,
     contact_email |-> self.contact_email,
     contact_phone |-> self.contact_phone]

\* ---------------------------------------------------------------- responses
Resp(status, error, body) ==
    [status |-> status, error |-> error, message |-> "", body |-> body]

NoResp == Resp(0, "", <<>>)
BadRequest(error) == Resp(400, error, <<>>)
\* an exception no handler catches: the framework answers 500 without the
\* handler's JSON error
Unhandled == Resp(500, "TypeError", <<>>)
DatabaseError == Resp(500, "Database error: ", <<>>)
DuplicateMsg == "A training center with this CenterCode already exists"

\* ------------------------------------------------- create_training_center
\* lines 103-122: the first check that fails answers; a None where a string
\* or an object is read raises TypeError
Validate(data) ==
    IF data.center_name.k = "absent" THEN BadRequest("center_name is required")
    ELSE IF data.center_code.k = "absent" THEN BadRequest("center_code is required")
    ELSE IF data.address.k = "absent" THEN BadRequest("address is required")
    ELSE IF data.contact_phone.k = "absent" THEN BadRequest("contact_phone is required")
    ELSE IF data.center_name.k = "null" THEN Unhandled
    ELSE IF Len(data.center_name.v) > NameMax
         THEN BadRequest("CenterName should be less than 40 characters")
    ELSE IF data.center_code.k = "null" THEN Unhandled
    ELSE IF Len(data.center_code.v) # CodeLen
         THEN BadRequest("CenterCode should be exactly 12 characters")
    ELSE IF data.contact_email.k = "null" THEN Unhandled
    ELSE IF data.contact_email.k # "absent" /\ ~validate_email(data.contact_email.v)
         THEN BadRequest("Invalid email format")
    ELSE IF data.contact_phone.k = "null" THEN Unhandled
    ELSE IF ~validate_phone(data.contact_phone.v)
         THEN BadRequest("Invalid phone number format")
    ELSE IF data.address.k = "null" THEN Unhandled
    ELSE IF \E f \in {"detailed_address", "city", "state", "pincode"} : data[f].k = "absent"
         THEN BadRequest("Incomplete address details")
    ELSE NoResp

\* data.get(key): None when the key is absent
Get(data, key) == IF data[key].k = "absent" THEN Null ELSE data[key]

\* lines 129-140: the row before the store assigns id and created_on (0: unset)
NewCenter(data) ==
    [id |-> 0,
     center_name |-> data.center_name,
     center_code |-> data.center_code,
     detailed_address |-> data.detailed_address,
     city |-> data.city,
     state |-> data.state,
     pincode |-> data.pincode,
     student_capacity |-> Get(data, "student_capacity"),
     courses_offered |-> Str(Join(IF data.courses_offered.k = "absent"
                                  THEN <<>>
                                  ELSE data.courses_offered.v)),
     created_on |-> 0,
     contact_email |-> Get(data, "contact_email"),
     contact_phone |-> data.contact_phone]

\* ------------------------------------------------------------ record store
\* TrainingCenter.query.filter_by(center_code=code).first() finds a row
FindByCode(s, code) == \E i \in 1..Len(s) : s[i].center_code = code

\* nullable=False columns
NotNullOK(row) ==
    \A c \in {"center_name", "center_code", "detailed_address", "city", "state",
              "pincode", "contact_phone"} : row[c].k # "null"

UniqueOff(s, row) == TRUE

\* unique=True on center_code
UniqueOK(s, row) == \A i \in 1..Len(s) : s[i].center_code # row.center_code

\* the largest INTEGER the store holds, 2^63 - 1, and the magnitude of the
\* smallest, -2^63
Int64Max ==
    <<"9", "2", "2", "3", "3", "7", "2", "0", "3", "6", "8", "5", "4", "7", "7",
      "5", "8", "0", "7">>
Int64MinMagnitude ==
    <<"9", "2", "2", "3", "3", "7", "2", "0", "3", "6", "8", "5", "4", "7", "7",
      "5", "8", "0", "8">>

DecimalDigits == <<"0", "1", "2", "3", "4", "5", "6", "7", "8", "9">>
DigitValue(c) == (CHOOSE i \in 1..10 : DecimalDigits[i] = c) - 1

\* a <= b, for two naturals written in decimal digits
DecimalLE(a, b) ==
    \/ Len(a) < Len(b)
    \/ /\ Len(a) = Len(b)
       /\ \/ a = b
          \/ \E i \in 1..Len(a) :
                /\ \A p \in 1..(i - 1) : a[p] = b[p]
                /\ DigitValue(a[i]) < DigitValue(b[i])

\* the integer n is one the store can hold: -2^63 <= n <= 2^63 - 1
FitsInt64(n) ==
    IF n[1] = "-" THEN DecimalLE(Tail(n), Int64MinMagnitude)
    ELSE DecimalLE(n, Int64Max)

\* binding the parameters of the INSERT: an integer outside the 64-bit range
\* raises OverflowError
BindOK(row) ==
    row.student_capacity.k = "int" => FitsInt64(row.student_capacity.v)

InsertedFirst(s, row, ts) ==
    <<[row EXCEPT !.id = Len(s) + 1, !.created_on = ts]>> \o s

\* the INSERT of a successful commit: the store assigns id and created_on
Inserted(s, row, ts) ==
    Append(s, [row EXCEPT !.id = Len(s) + 1, !.created_on = ts])

RollbackKeepsRow(s, row) == Append(s, row)

\* db.session.rollback(): nothing of the failed transaction stays
Rollback(s, row) == s

Timestamps == 1..(1 + MaxClock)
\* -------------------------------------------------------------- requests
Threads == {"t1", "t2"}

NoData ==
    [center_name |-> Absent, center_code |-> Absent, address |-> Absent,
     detailed_address |-> Absent, city |-> Absent, state |-> Absent,
     pincode |-> Absent, student_capacity |-> Absent, courses_offered |-> Absent,
     contact_email |-> Absent, contact_phone |-> Absent]

NoFilters == [city |-> Absent, state |-> Absent, pincode |-> Absent]

\* A request in flight: op and pc are the handler and its position, data and
\* filters its input, resp its answer; looked = the lookup of the center_code
\* ran, found = it found a row (existing_center), id = new_center.id once the
\* commit has assigned it (0 before).  after, win and raced are history:
\* after = the requests already answered when this one started; win = the
\* Creates that stood between their lookup and their commit while this one
\* did; raced = there was such a Create.
IdleReq ==
    [pc |-> "idle", op |-> "none", data |-> NoData, filters |-> NoFilters,
     looked |-> FALSE, found |-> FALSE, id |-> 0, resp |-> NoResp,
     after |-> {}, win |-> {}, raced |-> FALSE]

Init ==
    /\ store = <<>>
    /\ req = [t \in Threads |-> IdleReq]

Answered(t) == {u \in Threads \ {t} : req[u].pc = "done"}
InWindow(t) == {u \in Threads \ {t} : req[u].pc = "looked"}

\* lines 101-127: the validator, then the lookup of the center_code
CreateLookup(t, data) ==
    /\ req[t].pc = "idle"
    /\ LET started == [IdleReq EXCEPT !.op = "create", !.data = data,
                                      !.after = Answered(t)]
           invalid == Validate(data)
       IN  IF invalid # NoResp
           THEN req' = [req EXCEPT ![t] = [started EXCEPT !.pc = "done", !.resp = invalid]]
           ELSE IF FindByCode(store, data.center_code)
           THEN req' = [req EXCEPT ![t] = [started EXCEPT !.pc = "done", !.looked = TRUE,
                                               !.found = TRUE,
                                               !.resp = BadRequest(DuplicateMsg)]]
           ELSE req' = [u \in Threads |->
                           IF u = t
                           THEN [started EXCEPT !.pc = "looked", !.looked = TRUE,
                                                !.win = InWindow(t),
                                                !.raced = InWindow(t) # {}]
                           ELSE IF req[u].pc = "looked"
                           THEN [req[u] EXCEPT !.win = @ \cup {t}, !.raced = TRUE]
                           ELSE req[u]]
    /\ UNCHANGED store

\* lines 129-147: build the row, add it, commit; whatever the commit raises
\* (OverflowError when a value cannot be bound, IntegrityError when a NOT
\* NULL or the UNIQUE constraint refuses the row) is caught and rolled back.
\* A successful commit ends the transaction: the row is stored and visible
\* to every request before this one is answered.
CreateCommit(t) ==
    /\ req[t].pc = "looked"
    /\ IF req[t].data.courses_offered.k = "null"
       THEN /\ req' = [req EXCEPT ![t].pc = "done", ![t].resp = Unhandled]
            /\ UNCHANGED store
       ELSE LET new_center == NewCenter(req[t].data)
            IN  IF /\ BindOK(new_center)
                       /\ NotNullOK(new_center)
                       /\ UniqueOK(store, new_center)
                THEN \E ts \in Timestamps :
                        /\ store' = Inserted(store, new_center, ts)
                        /\ req' = [req EXCEPT ![t].pc = "committed",
                                               ![t].id = Len(store) + 1]
                ELSE /\ store' = Rollback(store, new_center)
                     /\ req' = [req EXCEPT ![t].pc = "done", ![t].resp = DatabaseError]

\* the commit expired new_center (expire_on_commit); reading its attributes
\* loads the row with its primary key again, in a new transaction
Reload(s, id) == s[CHOOSE i \in 1..Len(s) : s[i].id = id]

\* line 149: the answer is built from the reloaded row
CreateAnswer(t) ==
    /\ req[t].pc = "committed"
    /\ req' = [req EXCEPT ![t].pc = "done",
                          ![t].resp = Resp(201, "", <<to_dict(Reload(store, req[t].id))>>)]
    /\ UNCHANGED store

FilterByStateOff(s, v) == s

FilterByCity(s, v) == SelectSeq(s, LAMBDA row : row.city = Str(v))
FilterByState(s, v) == SelectSeq(s, LAMBDA row : row.state = Str(v))
FilterByPincode(s, v) == SelectSeq(s, LAMBDA row : row.pincode = Str(v))

\* lines 154-164: one filter_by per supplied argument, then query.all()
Query(s, filters) ==
    LET q1 == IF filters.city.k # "absent" THEN FilterByCity(s, filters.city.v) ELSE s
        q2 == IF filters.state.k # "absent" THEN FilterByState(q1, filters.state.v) ELSE q1
    IN  IF filters.pincode.k # "absent" THEN FilterByPincode(q2, filters.pincode.v) ELSE q2

ToDicts(centers) == [i \in 1..Len(centers) |-> to_dict(centers[i])]

\* get_training_centers
ListCenters(t, filters) ==
    /\ req[t].pc = "idle"
    /\ req' = [req EXCEPT ![t] = [IdleReq EXCEPT !.pc = "done", !.op = "list",
                                      !.filters = filters, !.after = Answered(t),
                                      !.resp = Resp(200, "", ToDicts(Query(store, filters)))]]
    /\ UNCHANGED store

\* home
Home(t) ==
    /\ req[t].pc = "idle"
    /\ req' = [req EXCEPT ![t] = [IdleReq EXCEPT !.pc = "done", !.op = "home",
                                      !.after = Answered(t),
                                      !.resp = [Resp(200, "", <<>>) EXCEPT
                                                   !.message = "Traini8 Backend API is running"]]]
    /\ UNCHANGED store

\* the answer is delivered; the worker takes the next request
Finish(t) ==
    /\ req[t].pc = "done"
    /\ req' = [u \in Threads |->
                  IF u = t THEN IdleReq
                  ELSE [req[u] EXCEPT !.after = @ \ {t}, !.win = @ \ {t}]]
    /\ UNCHANGED store
\* ------------------------------------------------------------------ inputs
Code1 == Rep("A", CodeLen)
Code2 == Rep("B", CodeLen)
Pune == <<"P", "u", "n", "e">>
pune == <<"p", "u", "n", "e">>
MH == <<"M", "H">>
KA == <<"K", "A">>
Pin1 == <<"4", "1">>
Pin2 == <<"5", "6">>

Base(code) ==
    [center_name |-> Str(<<"T", "C">>),
     center_code |-> Str(code),
     address |-> Obj,
     detailed_address |-> Str(<<"M", "G">>),
     city |-> Str(Pune),
     state |-> Str(MH),
     pincode |-> Str(Pin1),
     student_capacity |-> Absent,
     courses_offered |-> Absent,
     contact_email |-> Absent,
     contact_phone |-> Str(Rep("9", PhoneLen))]

Apply(p, dev) == [p EXCEPT ![dev[1]] = dev[2]]

\* one deviation from Base that the validator or the interpreter refuses
BadDevs ==
    {<<"center_name", Absent>>, <<"center_name", Null>>,
     <<"center_name", Str(Rep("n", NameMax + 1))>>,
     <<"center_code", Absent>>, <<"center_code", Null>>,
     <<"center_code", Str(Rep("A", CodeLen - 1))>>,
     <<"center_code", Str(Rep("A", CodeLen + 1))>>,
     <<"address", Absent>>, <<"address", Null>>,
     <<"contact_phone", Absent>>, <<"contact_phone", Null>>,
     <<"contact_phone", Str(Rep("9", 5))>>,
     <<"contact_phone", Str(Rep("9", PhoneLen + 1))>>,
     <<"contact_phone", Str(Rep("9", PhoneLen - 1) \o <<"x">>)>>,
     <<"contact_email", Null>>,
     <<"contact_email", Str(<<"a", "b">>)>>,
     <<"contact_email", Str(<<"a", "@", "b", ".">>)>>,
     <<"contact_email", Str(<<"a", "@", ".", "c">>)>>,
     <<"city", Absent>>, <<"pincode", Absent>>}

\* one refused deviation for each check, to combine in pairs
OrderDevs ==
    {<<"center_name", Absent>>, <<"center_code", Absent>>, <<"address", Absent>>,
     <<"contact_phone", Absent>>, <<"center_name", Str(Rep("n", NameMax + 1))>>,
     <<"center_code", Str(Rep("A", CodeLen - 1))>>,
     <<"contact_email", Str(<<"a", "b">>)>>, <<"contact_email", Null>>,
     <<"contact_phone", Str(Rep("9", 5))>>, <<"city", Absent>>}

\* one deviation from Base that passes the validator
GoodDevs ==
    {<<"center_name", Str(Rep("n", NameMax))>>,
     <<"contact_email", Str(<<"a", "@", "b", ".", "c">>)>>,
     <<"contact_email", Str(<<"a", "@", "b", ".", "c", "@">>)>>,
     <<"contact_phone", Str(Rep("9", PhoneLen) \o <<"\n">>)>>,
     <<"contact_phone", Str(Rep("9", PhoneLen - 1) \o <<"U+0663">>)>>,
     <<"contact_phone", Str(<<"U+0661", "U+0662", "U+0663", "U+0664", "U+0665",
                              "U+0666", "U+0667", "U+0668", "U+0669", "U+0660">>)>>,
     <<"contact_phone", Str(<<"U+FF11">> \o Rep("9", PhoneLen - 1))>>,
     <<"city", Str(pune)>>, <<"city", Null>>, <<"state", Str(KA)>>,
     <<"pincode", Str(Pin2)>>, <<"detailed_address", Null>>}

\* student_capacity at and around the ends of the 64-bit range
Capacities ==
    {Num(Int64Max), Num(Int64MinMagnitude), Num(<<"-">> \o Int64MinMagnitude),
     Num(<<"-">> \o Int64Max \o <<"0">>), Num(<<"9">> \o Int64Max)}

CourseNames == {<<"a">>, <<"a", ",", "b">>, <<"a", ",", ",", "b">>}
CourseLists == UNION {[1..n -> CourseNames] : n \in 0..MaxCourses}

SeqPayloads ==
    {Base(Code1), Base(Code2), [Base(Code2) EXCEPT !.city = Str(pune), !.state = Str(KA)]}
    \cup {Apply(Base(Code1), d) : d \in BadDevs \cup GoodDevs}
    \cup {Apply(Apply(Base(Code1), d), e) : d \in OrderDevs, e \in OrderDevs}
    \cup {[Base(Code1) EXCEPT !.student_capacity = c] :
             c \in {Null, Num(<<"5">>)} \cup Capacities}
    \cup {[Base(Code1) EXCEPT !.courses_offered = c] :
             c \in {Null, List(<<>>), List(<<<<"a">>, <<"a", ",", "b">>>>)}}

SeqFilters ==
    [city : {Absent, Str(Pune), Str(pune)},
     state : {Absent, Str(MH), Str(KA)},
     pincode : {Absent, Str(Pin1)}]

RacePayloads ==
    {Base(Code1), Base(Code2),
     [Base(Code1) EXCEPT !.center_name = Str(Rep("n", NameMax))],
     [Base(Code1) EXCEPT !.city = Null],
     [Base(Code1) EXCEPT !.courses_offered = Null],
     [Base(Code1) EXCEPT !.contact_email = Null],
     [Base(Code1) EXCEPT !.contact_phone = Str(Rep("9", 5))],
     [Base(Code1) EXCEPT !.student_capacity = Num(Int64MinMagnitude)]}

\* payloads that differ in what the serializer reshapes
WirePayloads ==
    {Base(Code1), Base(Code2),
     [Base(Code1) EXCEPT !.contact_email = Str(<<"a", "@", "b", ".", "c">>)]}
    \cup {[Base(Code1) EXCEPT !.student_capacity = c] :
             c \in {Null, Num(<<"5">>), Num(Int64Max)}}
    \cup {[Base(Code1) EXCEPT !.courses_offered = List(l)] : l \in CourseLists}

RaceFilters == {NoFilters, [NoFilters EXCEPT !.city = Str(Pune)]}

\* ----------------------------------------------------------- specifications
\* two workers serving requests concurrently
Next ==
    \E t \in Threads :
        \/ \E data \in RacePayloads : CreateLookup(t, data)
        \/ CreateCommit(t)
        \/ CreateAnswer(t)
        \/ \E filters \in RaceFilters : ListCenters(t, filters)
        \/ Home(t)
        \/ Finish(t)

Spec == Init /\ [][Next]_vars

\* one worker: every request starts after the one before it was answered
NextSeq ==
    \/ \E data \in SeqPayloads : CreateLookup("t1", data)
    \/ CreateCommit("t1")
    \/ CreateAnswer("t1")
    \/ \E filters \in SeqFilters : ListCenters("t1", filters)
    \/ Home("t1")
    \/ Finish("t1")

SpecSeq == Init /\ [][NextSeq]_vars

\* one worker, payloads that exercise the serializer
NextWire ==
    \/ \E data \in WirePayloads : CreateLookup("t1", data)
    \/ CreateCommit("t1")
    \/ CreateAnswer("t1")
    \/ \E filters \in RaceFilters : ListCenters("t1", filters)
    \/ Home("t1")
    \/ Finish("t1")

SpecWire == Init /\ [][NextWire]_vars
\* ------------------------------------------------------------------ claims
DoneCreate(t) == req[t].op = "create" /\ req[t].pc = "done"
Created(t) == DoneCreate(t) /\ req[t].resp.status = 201
AddressFields == {"detailed_address", "city", "state", "pincode"}

RowsWithCode(code) == {i \in 1..Len(store) : store[i].center_code = code}

\* the two requests carried the same center_code into the window between
\* lookup and commit at the same time, and both are answered
RacedPair(t, u) ==
    /\ t # u
    /\ DoneCreate(t) /\ DoneCreate(u)
    /\ u \in req[t].win
    /\ req[t].data.center_code = req[u].data.center_code

\* t was answered before u started, both passed the validator with the same
\* center_code, which was not stored when t looked it up, and no other Create
\* stood in t's window
SequentialPair(t, u) ==
    /\ t # u
    /\ DoneCreate(t) /\ DoneCreate(u)
    /\ t \in req[u].after
    /\ Validate(req[t].data) = NoResp /\ Validate(req[u].data) = NoResp
    /\ req[t].data.center_code = req[u].data.center_code
    /\ ~req[t].found /\ ~req[t].raced

\* C1: in every reachable state, whatever the interleaving of Creates, no two
\* stored records have the same center_code.
C1_UniqueCode ==
    \A i, j \in 1..Len(store) :
        i # j => store[i].center_code # store[j].center_code

C1_Witness ==
    \E t, u \in Threads :
        /\ RacedPair(t, u)
        /\ Created(t)
        /\ Len(store) >= 2

\* C2: a Create that answers with an error has stored nothing: its answer
\* comes before any commit of its own and its step leaves the store as it
\* was; a Create stores by one step that appends one full row (id and
\* created_on assigned), and such a Create answers 201 with that row
\* serialized; no other step changes the store.
C2_ErrorLeavesStore ==
    [][/\ \A t \in Threads :
             /\ (req[t].pc # "done" /\ req'[t].pc = "done" /\ req'[t].op = "create"
                    /\ req'[t].resp.status # 201)
                => /\ req'[t].resp.status \in {400, 500}
                   /\ req[t].pc \in {"idle", "looked"}
                   /\ store' = store
             /\ (req[t].pc # "committed" /\ req'[t].pc = "committed")
                => /\ req[t].pc = "looked"
                   /\ store' = Append(store, store'[Len(store')])
                   /\ store'[Len(store')].id = Len(store')
                   /\ store'[Len(store')].id = req'[t].id
                   /\ store'[Len(store')].created_on \in Timestamps
             /\ (req[t].pc = "committed" /\ req'[t].pc # "committed")
                => /\ req'[t].pc = "done"
                   /\ store' = store
                   /\ req'[t].resp.status = 201
                   /\ req'[t].resp.body = <<to_dict(store[req[t].id])>>
       /\ store' # store
          => \E t \in Threads : req[t].pc = "looked" /\ req'[t].pc = "committed"]_vars

C2_Witness ==
    \E t, u \in Threads :
        /\ RacedPair(t, u)
        /\ req[t].resp = DatabaseError
        /\ Created(u)
        /\ Len(store) = 1

\* C3: of two Creates with validator-passing payloads and the same
\* center_code run one after the other, the first answers 201, the second 400
\* "already exists", and one record holds the code.
C3_Original ==
    \A t, u \in Threads :
        SequentialPair(t, u)
        => /\ req[t].resp.status = 201
           /\ req[u].resp = BadRequest(DuplicateMsg)
           /\ Cardinality(RowsWithCode(req[t].data.center_code)) = 1

\* C4: of two Creates with the same center_code that both looked the code up
\* before either committed, exactly one answers 201 and the other 500
\* "Database error: "; never both 201.
C4_Original ==
    \A t, u \in Threads :
        RacedPair(t, u)
        => \/ Created(t) /\ req[u].resp = DatabaseError
           \/ Created(u) /\ req[t].resp = DatabaseError

\* the error the ordered checks of the validator call for ("" when all six
\* pass): a present value that is no string of the asked length or format,
\* or no object holding the four address keys, fails its check
ClaimError(data) ==
    IF data.center_name.k = "absent" THEN "center_name is required"
    ELSE IF data.center_code.k = "absent" THEN "center_code is required"
    ELSE IF data.address.k = "absent" THEN "address is required"
    ELSE IF data.contact_phone.k = "absent" THEN "contact_phone is required"
    ELSE IF ~(data.center_name.k = "str" /\ Len(data.center_name.v) <= NameMax)
         THEN "CenterName should be less than 40 characters"
    ELSE IF ~(data.center_code.k = "str" /\ Len(data.center_code.v) = CodeLen)
         THEN "CenterCode should be exactly 12 characters"
    ELSE IF data.contact_email.k # "absent"
            /\ ~(data.contact_email.k = "str" /\ validate_email(data.contact_email.v))
         THEN "Invalid email format"
    ELSE IF ~(data.contact_phone.k = "str" /\ validate_phone(data.contact_phone.v))
         THEN "Invalid phone number format"
    ELSE IF ~(data.address.k = "obj" /\ \A f \in AddressFields : data[f].k # "absent")
         THEN "Incomplete address details"
    ELSE ""

\* C5: Create answers 400 with the error of the first failing check, in the
\* order presence (center_name, center_code, address, contact_phone), name
\* length, code length, email format, phone format, address completeness,
\* and looks the center_code up only when all six pass.
C5_CheckOrder ==
    \A t \in Threads :
        DoneCreate(t)
        => IF ClaimError(req[t].data) # ""
           THEN req[t].resp = BadRequest(ClaimError(req[t].data)) /\ ~req[t].looked
           ELSE req[t].looked

\* C6: a Create whose payload passes every validator check and whose
\* center_code is not stored answers 201 with the input's fields, the
\* courses_offered list as sent (empty when omitted).
C6_EchoesInput ==
    \A t \in Threads :
        (DoneCreate(t) /\ Validate(req[t].data) = NoResp /\ ~req[t].found)
        => /\ req[t].resp.status = 201
           /\ Len(req[t].resp.body) = 1
           /\ LET out == req[t].resp.body[1]
                  data == req[t].data
              IN  /\ out.center_name = data.center_name
                  /\ out.center_code = data.center_code
                  /\ \A f \in AddressFields : out.address[f] = data[f]
                  /\ out.student_capacity = Get(data, "student_capacity")
                  /\ out.contact_email = Get(data, "contact_email")
                  /\ out.contact_phone = data.contact_phone
                  /\ out.courses_offered = data.courses_offered.v
                  /\ "id" \notin DOMAIN out

Matches(row, filters) ==
    \A f \in {"city", "state", "pincode"} :
        filters[f].k = "absent" \/ row[f] = filters[f]

\* C7: List answers 200 with exactly the serialized rows that equal every
\* supplied filter among city, state and pincode; no filter, every row; no
\* match, the empty sequence.
C7_ListFilters ==
    \A t \in Threads :
        (req[t].op = "list" /\ req[t].pc = "done")
        => LET body == req[t].resp.body
               hits == {i \in 1..Len(store) : Matches(store[i], req[t].filters)}
           IN  /\ req[t].resp.status = 200
               /\ Len(body) = Cardinality(hits)
               /\ {body[i] : i \in 1..Len(body)} = {to_dict(store[i]) : i \in hits}

C7_Witness ==
    \E t \in Threads :
        /\ req[t].op = "list" /\ req[t].pc = "done"
        /\ req[t].filters.city.k # "absent" /\ req[t].filters.state.k # "absent"
        /\ Len(req[t].resp.body) = 1
        /\ Len(store) = 2
        /\ \A i \in 1..Len(store) : store[i].city = req[t].filters.city

\* C8: every step keeps every stored row as it was; only the commit of a
\* Create adds a row; Health and List leave the store unchanged.
C8_RowsNeverChange ==
    [][/\ Len(store') >= Len(store)
       /\ \A i \in 1..Len(store) : store'[i] = store[i]
       /\ store' # store
          => \E t \in Threads : /\ req[t].op = "create" /\ req[t].pc = "looked"
                                /\ req'[t].pc = "committed"
       /\ \A t \in Threads :
             (req[t].pc = "idle" /\ req'[t].op \in {"list", "home"})
             => store' = store]_vars

C8_Witness ==
    /\ Len(store) = 2
    /\ \E t, u \in Threads :
          /\ req[t].op = "list" /\ req[t].pc = "done"
          /\ DoneCreate(u) /\ req[u].resp = DatabaseError

\* the JSON object to_dict produces, read as a request payload
WireAsData(w) ==
    [center_name |-> w.center_name,
     center_code |-> w.center_code,
     address |-> Obj,
     detailed_address |-> w.address.detailed_address,
     city |-> w.address.city,
     state |-> w.address.state,
     pincode |-> w.address.pincode,
     student_capacity |-> w.student_capacity,
     courses_offered |-> List(w.courses_offered),
     contact_email |-> w.contact_email,
     contact_phone |-> w.contact_phone]

\* C9: for every stored row, building a row from to_dict(row) the way Create
\* does gives the row back in every field but id and created_on.
C9_RoundTrip ==
    \A i \in 1..Len(store) :
        NewCenter(WireAsData(to_dict(store[i])))
            = [store[i] EXCEPT !.id = 0, !.created_on = 0]

C9_Witness ==
    \E i \in 1..Len(store) :
        /\ Len(to_dict(store[i]).courses_offered) >= 3
        /\ \E n \in 1..3 : to_dict(store[i]).courses_offered[n] = <<>>

\* "local@domain.tld": non-@ characters, "@", non-@ characters, ".", characters
EmailShape(s) ==
    \E i \in 1..Len(s), j \in 1..Len(s) :
        /\ i >= 2 /\ s[i] = "@" /\ \A p \in 1..(i - 1) : s[p] # "@"
        /\ j >= i + 2 /\ s[j] = "." /\ \A p \in (i + 1)..(j - 1) : s[p] # "@"
        /\ j < Len(s)

\* the constraints of the data model on the fields r of a row or payload
DataModelOK(r) ==
    /\ r.center_name.k = "str" /\ Len(r.center_name.v) <= NameMax
    /\ r.center_code.k = "str" /\ Len(r.center_code.v) = CodeLen
    /\ r.contact_phone.k = "str" /\ Len(r.contact_phone.v) = PhoneLen
    /\ \A p \in 1..Len(r.contact_phone.v) : r.contact_phone.v[p] \in Digits
    /\ \/ r.contact_email.k \in {"null", "absent"}
       \/ r.contact_email.k = "str" /\ EmailShape(r.contact_email.v)
    /\ \A f \in AddressFields : r[f].k = "str"

\* C10: every stored row satisfies the data model (name of at most 40
\* characters, code of exactly 12, phone of exactly 10 decimal digits, email
\* null or local@domain.tld, the four address fields non-null), and no Create
\* whose payload violates it answers 201.
C10_DataModel ==
    /\ \A i \in 1..Len(store) : DataModelOK(store[i])
    /\ \A t \in Threads : Created(t) => DataModelOK(req[t].data)
====
